---- MODULE Spec2Model ----
(***************************************************************************)
(* github-stale-pr-bot (src/main.go): one batch run.  main loads every     *)
(* page of the organisation's open issues, keeps the pull requests older   *)
(* than -stale, and starts one goroutine per kept pull request that either *)
(* assigns a team member drawn from a shared ring or reminds the assignee  *)
(* on slack.  Time is counted in ticks; Day ticks make 24 hours.           *)
(***************************************************************************)
EXTENDS Integers, Sequences, FiniteSets, TLC

\* ------------------------------------------------------------------ bounds
MaxTime == 3      \* the clock readings of a run lie in 0..MaxTime
MaxDuration == 2  \* -stale and -old are drawn from 0..MaxDuration
MaxDraws == 6     \* the first MaxDraws draws of nextRandomMember are recorded

Day == 2          \* 24 * time.Hour, in ticks

\* ------------------------------------------------------------------- users
botName == "optiopay-helper"

NilUser == [ID |-> -1, Login |-> "<nil>"]   \* a nil *User
ZeroUser == [ID |-> 0, Login |-> ""]        \* User{}

alice == [ID |-> 1, Login |-> "alice"]
bob == [ID |-> 2, Login |-> "bob"]
carol == [ID |-> 3, Login |-> "carol"]
dave == [ID |-> 4, Login |-> "dave"]        \* an author outside the team
bot == [ID |-> 9, Login |-> botName]

\* An Issue as decoded from the listing: PullRequest # nil is isPR.
Issue(id, isPR, created, author, assignee) ==
    [ID |-> id, isPR |-> isPR, CreatedAt |-> created, User |-> author,
     Assignee |-> assignee]

isPullRequest(i) == i.isPR

\* ----------------------------------------------------------- Link header
\* A Link header is a sequence of links; a url is the index of a page.
Link(url, rel) == [url |-> url, rel |-> rel]

\* linkRegex.FindStringSubmatch(resp.Header.Get("Link")): the url of the
\* rel="next" link, "" (0) when there is none.
NextURLLast(header) ==
    LET idx == {k \in 1..Len(header) : header[k].rel = "last"}
    IN IF idx = {} THEN 0 ELSE header[CHOOSE k \in idx : TRUE].url

NextURL(header) ==
    LET idx == {k \in 1..Len(header) : header[k].rel = "next"}
    IN IF idx = {} THEN 0 ELSE header[CHOOSE k \in idx : TRUE].url

Page(items, header) == [items |-> items, header |-> header]

\* --------------------------------------------------------- vacation flag
\* time.Parse("2006-01-02", s): midnight of the day, or an error.
ValidDates == {"2015-05-01", "2015-05-02"}
ParseDate(s) ==
    IF s = "2015-05-01" THEN [ok |-> TRUE, t |-> 0]
    ELSE IF s = "2015-05-02" THEN [ok |-> TRUE, t |-> Day]
    ELSE [ok |-> FALSE, t |-> 0]

\* One record of the flag is strings.Split(record, ":"), a sequence of
\* segments; the flag is strings.Split(*vacationUsers, ","), a sequence of
\* records.  The empty flag splits into the one record <<"">>.
RecordActive(parts, now) ==
    /\ Len(parts) = 3
    /\ ParseDate(parts[2]).ok
    /\ ParseDate(parts[3]).ok
    /\ now > ParseDate(parts[2]).t
    /\ now < ParseDate(parts[3]).t + Day

RECURSIVE OnVacation(_, _)
OnVacation(records, now) ==
    IF Len(records) = 0 THEN <<>>
    ELSE LET rest == OnVacation(Tail(records), now)
         IN IF RecordActive(Head(records), now)
            THEN <<Head(records)[1]>> \o rest
            ELSE rest

\* VacationUsers.Contains
Contains(u, entry) == \E k \in 1..Len(u) : u[k] = entry

\* for key, user := range members { if onVacation.Contains(user.Login) {
\*     members = append(members[:key], members[key+1:]...) } }
\* range reads the n elements of the original backing array arr, which the
\* append shifts in place while the slice members = arr[0:len] shrinks;
\* key is 1-based here, so members[key+1:] is out of range when key > len.
RECURSIVE RemoveLoop(_, _, _, _)
RemoveLoop(arr, len, key, onVac) ==
    IF key > Len(arr) THEN [panic |-> FALSE, members |-> SubSeq(arr, 1, len)]
    ELSE IF Contains(onVac, arr[key].Login)
         THEN IF key > len
              THEN [panic |-> TRUE, members |-> <<>>]
              ELSE RemoveLoop(
                     [k \in 1..Len(arr) |->
                        IF k >= key /\ k < len THEN arr[k + 1] ELSE arr[k]],
                     len - 1, key + 1, onVac)
         ELSE RemoveLoop(arr, len, key + 1, onVac)

\* listMembers, lines 175-202: the members left after the vacation filter.
FilterMembers(members, records, now) ==
    LET onVac == OnVacation(records, now)
    IN IF Len(onVac) > 0
       THEN RemoveLoop(members, Len(members), 1, onVac)
       ELSE [panic |-> FALSE, members |-> members]

\* ------------------------------------------------------------------- ring
\* membersRing: nil, or a ring over vals with the cursor at pos.
NilRing == [isNil |-> TRUE, vals |-> <<>>, pos |-> 0]

NewRingNoSkip(members, skip) ==
    [isNil |-> FALSE, vals |-> members, pos |-> 1]

\* ring.New(len(members)) filled in member order, then skip Next() calls.
NewRing(members, skip) ==
    [isNil |-> FALSE, vals |-> members, pos |-> skip + 1]

RingStay(r) == r

\* membersRing.Next()
RingNext(r) == [r EXCEPT !.pos = (r.pos % Len(r.vals)) + 1]

RingValue(r) == r.vals[r.pos]

\* --------------------------------------------------------- classification
IsStaleStrict(issue, staleTime, now) ==
    /\ isPullRequest(issue)
    /\ issue.CreatedAt + staleTime < now

\* stalePullRequests, lines 124-133: !issue.CreatedAt.Add(staleTime).After(now)
IsStale(issue, staleTime, now) ==
    /\ isPullRequest(issue)
    /\ ~(issue.CreatedAt + staleTime > now)

StaleOf(issues, staleTime, now) ==
    SelectSeq(issues, LAMBDA i : IsStale(i, staleTime, now))

NeedsReminderAnyChannel(issue, slack, oldTime, now) ==
    issue.CreatedAt + oldTime < now

\* main, line 384: *slackURLFl != "" && issue.CreatedAt.Add(*oldTimeFl).Before(now)
NeedsReminder(issue, slack, oldTime, now) ==
    slack /\ issue.CreatedAt + oldTime < now

AcceptableEither(u, issue) == u.ID # issue.User.ID \/ u.Login # botName

\* main, line 370: the draw is kept when it is neither the author nor the bot
Acceptable(u, issue) == u.ID # issue.User.ID /\ u.Login # botName

\* ------------------------------------------------------------------ state
VARIABLES
    staleTimeFl,    \* -stale, in ticks
    oldTimeFl,      \* -old, in ticks
    slackURLFl,     \* TRUE when -slack-url is not ""
    vacationUsers,  \* -vacation, split into records of segments
    pages,          \* the listing endpoint: page index -> items and Link header
    roster,         \* the team members endpoint
    clock,          \* the latest reading of time.Now()
    mainPC,         \* "load", "filter", "spawn", "wait", "done", "panic", "fatal"
    req,            \* stalePullRequests: the page the next request asks for
    issues,         \* stalePullRequests: the issues accumulated so far
    requests,       \* the pages requested, in order
    staleNow,       \* stalePullRequests: now (line 124)
    stale,          \* main: the result of stalePullRequests
    now,            \* main: now (line 355)
    err,            \* main: err, shared by every goroutine ("nil" or an error)
    taskPC,         \* per goroutine: where it stands
    path,           \* per goroutine: the branch it took ("assign", "remind", "skip")
    user,           \* per goroutine: var user User
    ret,            \* per goroutine: what its nextRandomMember call returned
    membersMu,      \* holder of membersMu, 0 when free
    membersRMu,     \* holder of membersRMu, 0 when free
    membersCache,   \* [isNil, val]
    membersRing,    \* NilRing or a ring
    fetchCalls,     \* requests sent to the members endpoint
    fetchFails,     \* of these, the ones that failed (lines 166-174)
    filterCalls,    \* passes through the vacation filter (lines 175-203)
    membersNow,     \* listMembers: now (line 176) of the last pass
    drawLog,        \* the first draws of nextRandomMember, in lock order
    ringSkips,      \* the skip drawn by rand.Int at each build of the ring
    assignWrites,   \* per goroutine: the PATCH requests it sent
    commentWrites,  \* per goroutine: the comment POSTs it sent
    reminders,      \* per goroutine: the webhook POSTs it sent
    logs            \* what was logged: a set of [kind, task]

flagVars == <<staleTimeFl, oldTimeFl, slackURLFl, vacationUsers>>
serverVars == <<pages, roster>>
loadVars == <<req, issues, requests, staleNow, stale, now>>
taskVars == <<taskPC, path, user, ret>>
memberVars == <<membersMu, membersRMu, membersCache, membersRing,
                fetchCalls, fetchFails, filterCalls, membersNow, drawLog,
                ringSkips>>
outVars == <<assignWrites, commentWrites, reminders, logs>>
vars == <<flagVars, serverVars, clock, mainPC, loadVars, err, taskVars,
          memberVars, outVars>>

NilCache == [isNil |-> TRUE, val |-> <<>>]

\* ------------------------------------------------------------------- Init
\* The state right after flag.Parse(): nothing fetched, nothing cached.
Fresh ==
    /\ mainPC = "load"
    /\ req = 1
    /\ issues = <<>>
    /\ requests = <<>>
    /\ staleNow = 0
    /\ stale = <<>>
    /\ now = 0
    /\ err = "nil"
    /\ taskPC = <<>>
    /\ path = <<>>
    /\ user = <<>>
    /\ ret = <<>>
    /\ membersMu = 0
    /\ membersRMu = 0
    /\ membersCache = NilCache
    /\ membersRing = NilRing
    /\ fetchCalls = 0
    /\ fetchFails = 0
    /\ filterCalls = 0
    /\ membersNow = 0
    /\ drawLog = <<>>
    /\ ringSkips = <<>>
    /\ assignWrites = <<>>
    /\ commentWrites = <<>>
    /\ reminders = <<>>
    /\ logs = {}

NoVacation == << <<"">> >>

\* One item of any kind, created before the run, under any thresholds; a
\* team of two.
InitClassify ==
    /\ staleTimeFl \in 0..MaxDuration
    /\ oldTimeFl \in 0..MaxDuration
    /\ slackURLFl \in BOOLEAN
    /\ vacationUsers = NoVacation
    /\ clock \in 0..MaxTime
    /\ \E isPR \in BOOLEAN, created \in 0..clock, a \in {NilUser, bob} :
         pages = <<Page(<<Issue(1, isPR, created, alice, a)>>, <<>>)>>
    /\ roster = <<alice, bob>>

\* The segments a -vacation record is made of.
VacationRecords ==
    { <<"alice", "2015-05-01", "2015-05-01">>,
      <<"bob", "2015-05-01", "2015-05-02">>,
      <<"carol", "2015-05-02", "2015-05-02">>,
      <<"alice", "2015-05-01">>,
      <<"bob", "2015-05-xx", "2015-05-02">>,
      <<"carol", "2015-05-01", "">> }

VacationFlags ==
    {NoVacation} \cup {<<r>> : r \in VacationRecords}
      \cup {<<r, q>> : r, q \in VacationRecords}

Rosters ==
    { <<>>, <<alice>>, <<bob>>, <<alice, bob>>, <<bob, carol>>,
      <<alice, carol>>, <<alice, bob, carol>>, <<carol, bob, alice>> }

\* One old unassigned pull request of an outsider, any team, any vacations.
InitPool ==
    /\ staleTimeFl = 0
    /\ oldTimeFl = 0
    /\ slackURLFl = FALSE
    /\ vacationUsers \in VacationFlags
    /\ pages = <<Page(<<Issue(1, TRUE, 0, dave, NilUser)>>, <<>>)>>
    /\ roster \in Rosters
    /\ clock = 0

\* The Link headers page k of n can carry: none, or the links of the
\* listing ("first", "prev", "next", "last"), "next" pointing forward.
Prev(k) == IF k > 1 THEN k - 1 ELSE 1

Headers(k, n) ==
    { <<>>, <<Link(1, "first"), Link(Prev(k), "prev")>> }
      \cup { <<Link(j, "next"), Link(n, "last")>> : j \in (k + 1)..n }
      \cup { <<Link(Prev(k), "prev"), Link(j, "next")>> : j \in (k + 1)..n }

PageItems(k) ==
    IF k = 1 THEN <<Issue(1, TRUE, 0, dave, NilUser)>>
    ELSE IF k = 2 THEN <<Issue(2, TRUE, 0, alice, bob), Issue(3, FALSE, 0, bob, NilUser)>>
    ELSE <<Issue(k + 1, FALSE, 0, bob, alice)>>

MaxPages == 3

Listings ==
    UNION { { p \in [1..n -> UNION {{Page(PageItems(k), h) : h \in Headers(k, n)} : k \in 1..n}] :
                \A k \in 1..n : p[k].items = PageItems(k) /\ p[k].header \in Headers(k, n) }
            : n \in 1..MaxPages }

\* A listing of up to MaxPages pages, every item old.
InitPaging ==
    /\ staleTimeFl = 0
    /\ oldTimeFl = 0
    /\ slackURLFl = TRUE
    /\ vacationUsers = NoVacation
    /\ pages \in Listings
    /\ roster = <<alice, bob>>
    /\ clock = MaxTime

\* The pull requests of the concurrent runs: old, most of them unassigned.
ConcurrentItems(k) ==
    { Issue(k, TRUE, 0, alice, NilUser), Issue(k, TRUE, 0, bob, NilUser),
      Issue(k, TRUE, 0, dave, NilUser), Issue(k, TRUE, 0, alice, carol) }

ConcurrentRosters ==
    { <<>>, <<alice>>, <<alice, bob>>, <<bot, alice>>, <<alice, bot, bob>>,
      <<alice, bob, carol>> }

\* One or two old pull requests dispatched concurrently.
InitConcurrent ==
    /\ staleTimeFl = 0
    /\ oldTimeFl = 0
    /\ slackURLFl = TRUE
    /\ vacationUsers = NoVacation
    /\ \E i1 \in ConcurrentItems(1) :
         \/ pages = <<Page(<<i1>>, <<>>)>>
         \/ \E i2 \in ConcurrentItems(2) : pages = <<Page(<<i1, i2>>, <<>>)>>
    /\ roster \in ConcurrentRosters
    /\ clock = MaxTime

Init ==
    /\ Fresh
    /\ \/ InitClassify
       \/ InitPool
       \/ InitPaging
       \/ InitConcurrent

\* ---------------------------------------------------------------- actions
Tasks == 1..Len(taskPC)

Running(t) == mainPC = "wait" /\ t \in Tasks

\* stalePullRequests, lines 105-122: one pass of the loop whose request
\* succeeds; the loop ends when the response carries no next url.
LoadIssuesOK ==
    /\ mainPC = "load"
    /\ requests' = Append(requests, req)
    /\ issues' = issues \o pages[req].items
    /\ LET nextURL == NextURL(pages[req].header)
       IN IF nextURL = 0
          THEN mainPC' = "filter" /\ req' = req
          ELSE mainPC' = "load" /\ req' = nextURL
    /\ UNCHANGED <<flagVars, serverVars, clock, staleNow, stale, now, err,
                   taskVars, memberVars, outVars>>

LoadIssuesFailPartial ==
    /\ mainPC = "load"
    /\ requests' = Append(requests, req)
    /\ mainPC' = "filter"
    /\ logs' = logs \cup {[kind |-> "panic: Failed to load", task |-> 0]}
    /\ UNCHANGED <<flagVars, serverVars, clock, req, issues, staleNow, stale,
                   now, err, taskVars, memberVars, assignWrites,
                   commentWrites, reminders>>

\* stalePullRequests, lines 108-111: the request or the decoding fails and
\* the loop panics, which ends the process.
LoadIssuesFail ==
    /\ mainPC = "load"
    /\ requests' = Append(requests, req)
    /\ mainPC' = "panic"
    /\ logs' = logs \cup {[kind |-> "panic: Failed to load", task |-> 0]}
    /\ UNCHANGED <<flagVars, serverVars, clock, req, issues, staleNow, stale,
                   now, err, taskVars, memberVars, assignWrites,
                   commentWrites, reminders>>

\* stalePullRequests, lines 124-134, returning to main (line 350).
FilterStale ==
    /\ mainPC = "filter"
    /\ \E n \in clock..MaxTime :
         /\ clock' = n
         /\ staleNow' = n
         /\ stale' = StaleOf(issues, staleTimeFl, n)
    /\ mainPC' = "spawn"
    /\ UNCHANGED <<flagVars, serverVars, req, issues, requests, now, err,
                   taskVars, memberVars, outVars>>

\* main, lines 355-391: read the clock and start one goroutine per item.
Spawn ==
    /\ mainPC = "spawn"
    /\ \E n \in clock..MaxTime : clock' = n /\ now' = n
    /\ taskPC' = [t \in 1..Len(stale) |-> "start"]
    /\ path' = [t \in 1..Len(stale) |-> "none"]
    /\ user' = [t \in 1..Len(stale) |-> ZeroUser]
    /\ ret' = [t \in 1..Len(stale) |-> [user |-> ZeroUser, err |-> "nil"]]
    /\ assignWrites' = [t \in 1..Len(stale) |-> <<>>]
    /\ commentWrites' = [t \in 1..Len(stale) |-> <<>>]
    /\ reminders' = [t \in 1..Len(stale) |-> <<>>]
    /\ mainPC' = "wait"
    /\ UNCHANGED <<flagVars, serverVars, req, issues, requests, staleNow,
                   stale, err, memberVars, logs>>

\* main, lines 364 and 384: the goroutine picks its path.
TaskStart(t) ==
    /\ Running(t)
    /\ taskPC[t] = "start"
    /\ LET branch == IF stale[t].Assignee = NilUser THEN "assign"
                     ELSE IF NeedsReminder(stale[t], slackURLFl, oldTimeFl, now)
                          THEN "remind"
                          ELSE "skip"
       IN /\ path' = [path EXCEPT ![t] = branch]
          /\ taskPC' = [taskPC EXCEPT ![t] =
               IF branch = "assign" THEN "draw"
               ELSE IF branch = "remind" THEN "remind" ELSE "done"]
    /\ UNCHANGED <<flagVars, serverVars, clock, mainPC, loadVars, err, user,
                   ret, memberVars, outVars>>

\* nextRandomMember line 222 with listMembers line 159: the members
\* endpoint is asked only while neither the ring nor the cache exists.
AlwaysFetch(ring, cache) == TRUE

MustFetch(ring, cache) == ring.isNil /\ cache.isNil

\* An unrecovered panic ends the process with every goroutine.
Panic(what) ==
    /\ mainPC' = "panic"
    /\ logs' = logs \cup {[kind |-> what, task |-> 0]}

\* nextRandomMember, lines 240-242, under membersRMu: return the member
\* under the cursor and move the cursor on.
DrawAndReturn(t, ring) ==
    /\ ret' = [ret EXCEPT ![t] = [user |-> RingValue(ring), err |-> "nil"]]
    /\ membersRing' = RingNext(ring)
    /\ drawLog' = IF Len(drawLog) < MaxDraws
                  THEN Append(drawLog, [task |-> t, member |-> RingValue(ring)])
                  ELSE drawLog
    /\ taskPC' = [taskPC EXCEPT ![t] = "store"]

\* nextRandomMember, lines 227-242: build the ring over members, skip a
\* random number of them, draw.  ring.New(0) is nil and rand.Int panics on
\* a bound of 0.
BuildAndDraw(t, members) ==
    IF Len(members) = 0
    THEN /\ Panic("panic: crypto/rand: argument to Int is <= 0")
         /\ UNCHANGED <<ret, membersRing, drawLog, ringSkips, taskPC>>
    ELSE /\ \E skip \in 0..(Len(members) - 1) :
              /\ DrawAndReturn(t, NewRing(members, skip))
              /\ ringSkips' = Append(ringSkips, skip)
         /\ UNCHANGED <<mainPC, logs>>

NextRandomMemberNoLock(t) ==
    /\ Running(t)
    /\ taskPC[t] = "draw"
    /\ IF MustFetch(membersRing, membersCache)
       THEN /\ membersRMu' = t
            /\ membersMu' = t
            /\ fetchCalls' = fetchCalls + 1
            /\ taskPC' = [taskPC EXCEPT ![t] = "fetch"]
            /\ UNCHANGED <<mainPC, logs, ret, membersRing, drawLog, ringSkips>>
       ELSE /\ IF membersRing.isNil
               THEN BuildAndDraw(t, membersCache.val)
               ELSE /\ DrawAndReturn(t, membersRing)
                    /\ UNCHANGED <<mainPC, logs, ringSkips>>
            /\ UNCHANGED <<membersRMu, membersMu, fetchCalls>>
    /\ UNCHANGED <<flagVars, serverVars, clock, loadVars, err, path, user,
                   membersCache, fetchFails, filterCalls, membersNow,
                   assignWrites, commentWrites, reminders>>

\* nextRandomMember called from the loop of main (line 369).  With the ring
\* built the whole call is one critical section; otherwise the caller keeps
\* membersRMu and membersMu while the members request is in flight.
NextRandomMember(t) ==
    /\ Running(t)
    /\ taskPC[t] = "draw"
    /\ membersRMu = 0
    /\ IF MustFetch(membersRing, membersCache)
       THEN /\ membersRMu' = t
            /\ membersMu' = t
            /\ fetchCalls' = fetchCalls + 1
            /\ taskPC' = [taskPC EXCEPT ![t] = "fetch"]
            /\ UNCHANGED <<mainPC, logs, ret, membersRing, drawLog, ringSkips>>
       ELSE /\ IF membersRing.isNil
               THEN BuildAndDraw(t, membersCache.val)
               ELSE /\ DrawAndReturn(t, membersRing)
                    /\ UNCHANGED <<mainPC, logs, ringSkips>>
            /\ UNCHANGED <<membersRMu, membersMu, fetchCalls>>
    /\ UNCHANGED <<flagVars, serverVars, clock, loadVars, err, path, user,
                   membersCache, fetchFails, filterCalls, membersNow,
                   assignWrites, commentWrites, reminders>>

\* listMembers, lines 166-205, then nextRandomMember lines 227-242: the
\* roster arrives, the vacation filter runs, the result is cached, the ring
\* is built and the first member drawn; both locks are released.
ListMembersOK(t) ==
    /\ Running(t)
    /\ taskPC[t] = "fetch"
    /\ \E n \in clock..MaxTime :
         /\ clock' = n
         /\ membersNow' = n
         /\ LET f == FilterMembers(roster, vacationUsers, n)
            IN IF f.panic
               THEN /\ Panic("panic: slice bounds out of range")
                    /\ UNCHANGED <<membersCache, ret, membersRing, drawLog,
                                   ringSkips, taskPC>>
               ELSE /\ membersCache' = [isNil |-> FALSE, val |-> f.members]
                    /\ BuildAndDraw(t, f.members)
    /\ filterCalls' = filterCalls + 1
    /\ membersMu' = 0
    /\ membersRMu' = 0
    /\ UNCHANGED <<flagVars, serverVars, loadVars, err, path, user, fetchCalls,
                   fetchFails, assignWrites, commentWrites, reminders>>

ListMembersFailMemoized(t) ==
    /\ Running(t)
    /\ taskPC[t] = "fetch"
    /\ ret' = [ret EXCEPT ![t] = [user |-> ZeroUser, err |-> "cannot list memebers"]]
    /\ taskPC' = [taskPC EXCEPT ![t] = "store"]
    /\ fetchFails' = fetchFails + 1
    /\ membersCache' = [isNil |-> FALSE, val |-> <<>>]
    /\ membersMu' = 0
    /\ membersRMu' = 0
    /\ UNCHANGED <<flagVars, serverVars, clock, mainPC, loadVars, err, path, user,
                   membersRing, fetchCalls, filterCalls,
                   membersNow, drawLog, ringSkips, outVars>>

\* listMembers, lines 166-174: the request or the decoding fails; the error
\* goes back through nextRandomMember (line 225) with User{}.
ListMembersFail(t) ==
    /\ Running(t)
    /\ taskPC[t] = "fetch"
    /\ ret' = [ret EXCEPT ![t] = [user |-> ZeroUser, err |-> "cannot list memebers"]]
    /\ taskPC' = [taskPC EXCEPT ![t] = "store"]
    /\ fetchFails' = fetchFails + 1
    /\ membersMu' = 0
    /\ membersRMu' = 0
    /\ UNCHANGED <<flagVars, serverVars, clock, mainPC, loadVars, err, path, user,
                   membersCache, membersRing, fetchCalls, filterCalls,
                   membersNow, drawLog, ringSkips, outVars>>

\* main, lines 369-372: user, err = nextRandomMember() stores the result,
\* err being the variable of main, and the loop ends on an acceptable user.
StoreDraw(t) ==
    /\ Running(t)
    /\ taskPC[t] = "store"
    /\ user' = [user EXCEPT ![t] = ret[t].user]
    /\ err' = ret[t].err
    /\ taskPC' = [taskPC EXCEPT ![t] =
         IF Acceptable(ret[t].user, stale[t]) THEN "checkErr" ELSE "draw"]
    /\ UNCHANGED <<flagVars, serverVars, clock, mainPC, loadVars, path, ret,
                   memberVars, outVars>>

\* main, lines 375-377: log.Fatalf ends the process when err is set.
CheckErr(t) ==
    /\ Running(t)
    /\ taskPC[t] = "checkErr"
    /\ IF err # "nil"
       THEN /\ mainPC' = "fatal"
            /\ logs' = logs \cup {[kind |-> "cannot pick user", task |-> t]}
            /\ UNCHANGED taskPC
       ELSE /\ taskPC' = [taskPC EXCEPT ![t] = "assign"]
            /\ UNCHANGED <<mainPC, logs>>
    /\ UNCHANGED <<flagVars, serverVars, clock, loadVars, err, path, user, ret,
                   memberVars, assignWrites, commentWrites, reminders>>

\* The ways a write can end: the expected status, another status, no response.
Outcomes == {"ok", "status", "transport"}

AssignUserThenComment(t) ==
    /\ Running(t)
    /\ taskPC[t] = "assign"
    /\ \E o \in Outcomes :
         /\ assignWrites' = [assignWrites EXCEPT ![t] =
              Append(@, [user |-> user[t], outcome |-> o])]
         /\ taskPC' = [taskPC EXCEPT ![t] = "comment"]
         /\ logs' = logs \cup {[kind |-> "assigned", task |-> t]}
    /\ UNCHANGED <<flagVars, serverVars, clock, mainPC, loadVars, err, path, user,
                   ret, memberVars, commentWrites, reminders>>

\* assignUser, lines 303-330: the PATCH naming user.Login.
AssignUser(t) ==
    /\ Running(t)
    /\ taskPC[t] = "assign"
    /\ \E o \in Outcomes :
         /\ assignWrites' = [assignWrites EXCEPT ![t] =
              Append(@, [user |-> user[t], outcome |-> o])]
         /\ IF o = "ok"
            THEN /\ taskPC' = [taskPC EXCEPT ![t] = "comment"]
                 /\ logs' = logs \cup {[kind |-> "assigned", task |-> t]}
            ELSE /\ taskPC' = [taskPC EXCEPT ![t] = "done"]
                 /\ logs' = logs \cup {[kind |-> "cannot assign", task |-> t]}
    /\ UNCHANGED <<flagVars, serverVars, clock, mainPC, loadVars, err, path, user,
                   ret, memberVars, commentWrites, reminders>>

\* assignUser, lines 331-335, with writeGithubComment: the comment POST,
\* whose failure is logged and nothing more.
WriteGithubComment(t) ==
    /\ Running(t)
    /\ taskPC[t] = "comment"
    /\ \E o \in Outcomes :
         /\ commentWrites' = [commentWrites EXCEPT ![t] = Append(@, o)]
         /\ logs' = IF o = "ok" THEN logs
                    ELSE logs \cup {[kind |-> "cannot comment", task |-> t]}
    /\ taskPC' = [taskPC EXCEPT ![t] = "done"]
    /\ UNCHANGED <<flagVars, serverVars, clock, mainPC, loadVars, err, path, user,
                   ret, memberVars, assignWrites, reminders>>

\* main, lines 385-387, with remindOnSlack: "not supported" without a
\* webhook url, else the webhook POST; any error is logged by main.
RemindOnSlack(t) ==
    /\ Running(t)
    /\ taskPC[t] = "remind"
    /\ IF ~slackURLFl
       THEN /\ logs' = logs \cup {[kind |-> "cannot write slack notification", task |-> t]}
            /\ UNCHANGED reminders
       ELSE \E o \in Outcomes :
            /\ reminders' = [reminders EXCEPT ![t] = Append(@, o)]
            /\ logs' = logs \cup
                 ({[kind |-> "reminding", task |-> t]} \cup
                  IF o = "ok" THEN {}
                  ELSE {[kind |-> "cannot write slack notification", task |-> t]})
    /\ taskPC' = [taskPC EXCEPT ![t] = "done"]
    /\ UNCHANGED <<flagVars, serverVars, clock, mainPC, loadVars, err, path, user,
                   ret, memberVars, assignWrites, commentWrites>>

WaitAny ==
    /\ mainPC = "wait"
    /\ (Tasks = {} \/ \E t \in Tasks : taskPC[t] = "done")
    /\ mainPC' = "done"
    /\ UNCHANGED <<flagVars, serverVars, clock, loadVars, err, taskVars,
                   memberVars, outVars>>

\* main, line 392: wg.Wait() returns once every goroutine is done.
Wait ==
    /\ mainPC = "wait"
    /\ \A t \in Tasks : taskPC[t] = "done"
    /\ mainPC' = "done"
    /\ UNCHANGED <<flagVars, serverVars, clock, loadVars, err, taskVars,
                   memberVars, outVars>>

Next ==
    \/ LoadIssuesOK
    \/ LoadIssuesFail
    \/ FilterStale
    \/ Spawn
    \/ Wait
    \/ \E t \in Tasks : TaskStart(t)
    \/ \E t \in Tasks : NextRandomMember(t)
    \/ \E t \in Tasks : ListMembersOK(t)
    \/ \E t \in Tasks : ListMembersFail(t)
    \/ \E t \in Tasks : StoreDraw(t)
    \/ \E t \in Tasks : CheckErr(t)
    \/ \E t \in Tasks : AssignUser(t)
    \/ \E t \in Tasks : WriteGithubComment(t)
    \/ \E t \in Tasks : RemindOnSlack(t)

Spec == Init /\ [][Next]_vars

\* The goroutine indices of the runs modelled (at most two stale pull
\* requests per run).
TaskIds == 1..2

\* The steps of main itself.
MainStep ==
    \/ LoadIssuesOK
    \/ LoadIssuesFail
    \/ FilterStale
    \/ Spawn
    \/ Wait

\* The steps of goroutine t (lines 361-390).
TaskStep(t) ==
    \/ TaskStart(t)
    \/ NextRandomMember(t)
    \/ ListMembersOK(t)
    \/ ListMembersFail(t)
    \/ StoreDraw(t)
    \/ CheckErr(t)
    \/ AssignUser(t)
    \/ WriteGithubComment(t)
    \/ RemindOnSlack(t)

\* The Go scheduler runs every runnable goroutine again and again, and
\* every HTTP request returns (a response or an error).
Fairness ==
    /\ WF_vars(MainStep)
    /\ \A t \in TaskIds : WF_vars(TaskStep(t))

\* The concurrent runs, scheduled fairly.
InitFair == Fresh /\ InitConcurrent

FairSpec == InitFair /\ [][Next]_vars /\ Fairness

\* ----------------------------------------------------------------- claims
\* The eligible pool, once cached.
Pool == membersCache.val

\* Every goroutine has taken its branch.
AllStarted ==
    /\ mainPC \in {"wait", "done"}
    /\ \A t \in Tasks : taskPC[t] # "start"

\* The goroutines started for a fetched issue and the branch they took.
OnPath(issue, branch) ==
    \E t \in Tasks : stale[t] = issue /\ path[t] = branch

\* C1: every user handed to the assignment write of a stale unassigned pull
\* request differs from the author by id and is not the bot by login,
\* whenever the pool holds a member that is neither.
C1_NeverAuthorNorBot ==
    \A t \in Tasks :
      ((~membersCache.isNil) /\ \E k \in 1..Len(Pool) :
           Pool[k].ID # stale[t].User.ID /\ Pool[k].Login # botName)
      => \A w \in 1..Len(assignWrites[t]) :
           /\ assignWrites[t][w].user.ID # stale[t].User.ID
           /\ assignWrites[t][w].user.Login # botName

\* C1 witness: a write was sent for a task that had drawn its author or the bot.
C1_Witness ==
    \E t \in Tasks :
      /\ Len(assignWrites[t]) > 0
      /\ \E d \in 1..Len(drawLog) :
           /\ drawLog[d].task = t
           /\ (drawLog[d].member.ID = stale[t].User.ID
               \/ drawLog[d].member.Login = botName)

\* C2: with a pool of N members, every N consecutive draws of
\* nextRandomMember hold every pool member exactly once, cycle after cycle.
C2_RoundRobin ==
    (~membersCache.isNil /\ Len(Pool) >= 1) =>
      \A i \in 1..Len(drawLog) :
        (i + Len(Pool) - 1 <= Len(drawLog)) =>
          \A m \in 1..Len(Pool) :
            Cardinality({j \in i..(i + Len(Pool) - 1) :
                           drawLog[j].member = Pool[m]}) = 1

\* C2 witness: two full cycles were drawn from a pool of three.
C2_Witness ==
    /\ ~membersCache.isNil
    /\ Len(Pool) = 3
    /\ Len(drawLog) >= 2 * Len(Pool)

\* C3: a request goes to the members endpoint only while no fetch has
\* succeeded and none is in flight, so that without a failed fetch there is
\* one request however many goroutines draw; the vacation filter runs once;
\* once the pool is cached it is never fetched, filtered or changed again.
C3_FetchOnce ==
    [][ /\ (fetchCalls' > fetchCalls => (filterCalls = 0 /\ membersMu = 0))
        /\ (fetchFails' = 0 => fetchCalls' <= 1)
        /\ filterCalls' <= 1
        /\ (~membersCache.isNil =>
              /\ fetchCalls' = fetchCalls
              /\ filterCalls' = filterCalls
              /\ membersCache' = membersCache
              /\ filterCalls = 1
              /\ (fetchFails = 0 => fetchCalls = 1)) ]_vars

\* C3 witness: two goroutines have drawn from the pool of the one fetch.
C3_Witness ==
    /\ ~membersCache.isNil
    /\ fetchCalls = 1
    /\ fetchFails = 0
    /\ \E d, e \in 1..Len(drawLog) : drawLog[d].task # drawLog[e].task

\* A pull request without assignee whose age at line 124 is at least -stale.
C4_Due(issue) ==
    /\ issue.isPR
    /\ issue.Assignee = NilUser
    /\ staleNow - issue.CreatedAt >= staleTimeFl

C5_RemindIff ==
    slackURLFl =>
      \A i \in 1..Len(issues) :
        (AllStarted /\ issues[i].isPR /\ issues[i].Assignee # NilUser) =>
          \/ OnPath(issues[i], "remind") <=> (now - issues[i].CreatedAt >= oldTimeFl)
          \/ OnPath(issues[i], "remind") <=> (staleNow - issues[i].CreatedAt >= oldTimeFl)

\* A well-formed record whose window, from the start date (its first instant
\* left out when first is 1) to the end of the end date, holds the instant n.
C6_InWindow(parts, n, first) ==
    /\ Len(parts) = 3
    /\ parts[2] \in ValidDates
    /\ parts[3] \in ValidDates
    /\ ParseDate(parts[2]).t + first <= n
    /\ n < ParseDate(parts[3]).t + Day

C6_Away(m, n, first) ==
    \E r \in 1..Len(vacationUsers) :
      vacationUsers[r][1] = m.Login /\ C6_InWindow(vacationUsers[r], n, first)

\* C6: the cached pool is the roster, in order, without the members whose
\* login has a well-formed record whose window, from the start date to the
\* end of the end date, holds the instant of the filter (the first instant
\* of the start date counted either way); the filter never fails.
C6_PoolIsFiltered ==
    filterCalls >= 1 =>
      /\ ~membersCache.isNil
      /\ \E first \in {0, 1} :
           Pool = SelectSeq(roster, LAMBDA m : ~C6_Away(m, membersNow, first))

\* The next-page locator a response carries, 0 when it carries none.
C7_Locator(header) ==
    LET urls == {header[k].url : k \in {j \in DOMAIN header : header[j].rel = "next"}}
    IN IF urls = {} THEN 0 ELSE CHOOSE u \in urls : TRUE

RECURSIVE C7_Chain(_)
C7_Chain(k) ==
    IF C7_Locator(pages[k].header) = 0 THEN <<k>>
    ELSE <<k>> \o C7_Chain(C7_Locator(pages[k].header))

RECURSIVE C7_Items(_)
C7_Items(chain) ==
    IF Len(chain) = 0 THEN <<>>
    ELSE pages[Head(chain)].items \o C7_Items(Tail(chain))

\* A page request of this run has failed.
LoadFailed == [kind |-> "panic: Failed to load", task |-> 0] \in logs

\* C7: the pages requested are the chain of next locators from the first
\* page, one request each and none after the page without locator, and the
\* issues are the items of these pages in that order.
C7_Pagination ==
    /\ Len(requests) <= Len(C7_Chain(1))
    /\ requests = SubSeq(C7_Chain(1), 1, Len(requests))
    /\ (mainPC # "load" /\ ~LoadFailed) =>
         /\ requests = C7_Chain(1)
         /\ issues = C7_Items(C7_Chain(1))

\* C7 witness: the loop ended after two or more pages, short of the pages
\* the listing has.
C7_Witness ==
    /\ mainPC = "filter"
    /\ Len(requests) >= 2
    /\ Len(requests) < Len(pages)

\* C8: once a page request has failed the run is over: nothing is returned
\* to main, no goroutine exists and so nothing is written.
C8_AbortNoPartial ==
    LoadFailed =>
      /\ mainPC = "panic"
      /\ stale = <<>>
      /\ taskPC = <<>>
      /\ assignWrites = <<>>
      /\ commentWrites = <<>>
      /\ reminders = <<>>

\* C8 witness: a later page failed after an old unassigned pull request
\* had been fetched.
C8_Witness ==
    /\ LoadFailed
    /\ Len(requests) >= 2
    /\ \E i \in 1..Len(issues) : issues[i].isPR /\ issues[i].Assignee = NilUser

\* C9: without a webhook url an assigned pull request is never reminded:
\* its goroutine goes from its start to its end, posts nothing, logs nothing.
C9_NoChannelNoOp ==
    ~slackURLFl =>
      \A t \in Tasks :
        stale[t].Assignee # NilUser =>
          /\ reminders[t] = <<>>
          /\ taskPC[t] \in {"start", "done"}
          /\ \A l \in logs : l.task # t

\* C9 witness: such a goroutine is done and its pull request older than -old.
C9_Witness ==
    /\ ~slackURLFl
    /\ \E t \in Tasks :
         /\ stale[t].Assignee # NilUser
         /\ taskPC[t] = "done"
         /\ stale[t].CreatedAt + oldTimeFl < now

\* The draws goroutine t has made.
DrawsOf(t) == Cardinality({d \in 1..Len(drawLog) : drawLog[d].task = t})

\* C10: when no pool member is acceptable for a pull request, its selection
\* stops within one round of the pool and the process does not crash.
C10_BoundedSelection ==
    \A t \in Tasks :
      (/\ path[t] = "assign"
       /\ ~membersCache.isNil
       /\ \A k \in 1..Len(Pool) :
            Pool[k].ID = stale[t].User.ID \/ Pool[k].Login = botName)
      => /\ DrawsOf(t) <= Len(Pool)
         /\ mainPC # "panic"

\* What the writes of goroutine t show in any state: at most one write of
\* each kind, on the path taken only, the comment after an assignment that
\* returned OK, and a failed comment leaving the assignment as it is.
C11_Writes(t) ==
    /\ Len(assignWrites[t]) <= 1
    /\ Len(commentWrites[t]) <= 1
    /\ Len(reminders[t]) <= 1
    /\ path[t] # "assign" => (assignWrites[t] = <<>> /\ commentWrites[t] = <<>>)
    /\ path[t] # "remind" => reminders[t] = <<>>
    /\ commentWrites[t] # <<>> =>
         (assignWrites[t] # <<>> /\ assignWrites[t][1].outcome = "ok")
    /\ (commentWrites[t] # <<>> /\ commentWrites[t][1] # "ok") =>
         /\ taskPC[t] = "done"
         /\ [kind |-> "assigned", task |-> t] \in logs
         /\ [kind |-> "cannot assign", task |-> t] \notin logs

\* C11 as stated: every stale item takes the assign path or the remind path,
\* one of the two, with the writes as above.
C11_ExactlyOnePath ==
    \A t \in Tasks :
      /\ AllStarted => path[t] \in {"assign", "remind"}
      /\ C11_Writes(t)

\* C11 amended: every stale item takes at most one of the two paths, and
\* neither exactly when it has an assignee and is not older than -old or no
\* webhook url is set; the writes are as above.
C11_AtMostOnePath ==
    \A t \in Tasks :
      /\ path[t] \in {"none", "assign", "remind", "skip"}
      /\ AllStarted =>
           (path[t] = "skip" <=>
              (/\ stale[t].Assignee # NilUser
               /\ ~(slackURLFl /\ stale[t].CreatedAt + oldTimeFl < now)))
      /\ C11_Writes(t)

\* C11 witness: an assignment returned OK, its comment failed and the
\* goroutine is done.
C11_Witness ==
    \E t \in Tasks :
      /\ taskPC[t] = "done"
      /\ assignWrites[t] # <<>>
      /\ commentWrites[t] # <<>>
      /\ commentWrites[t][1] # "ok"

\* C12: the ring is built at most once, over the cached pool; every draw
\* returns a pool member; after K draws the cursor stands K places past the
\* place it started from (K counted while the draws are recorded).
C12_AtomicDraws ==
    /\ Len(ringSkips) <= 1
    /\ membersRing.isNil => drawLog = <<>>
    /\ \A d \in 1..Len(drawLog) :
         \E k \in 1..Len(Pool) : drawLog[d].member = Pool[k]
    /\ ~membersRing.isNil =>
         /\ ~membersCache.isNil
         /\ membersRing.vals = Pool
         /\ Len(ringSkips) = 1
         /\ membersRing.pos \in 1..Len(Pool)
         /\ Len(drawLog) < MaxDraws =>
              membersRing.pos =
                ((ringSkips[1] + Len(drawLog)) % Len(Pool)) + 1

\* C12 witness: two goroutines have drawn, more often than the pool is long.
C12_Witness ==
    /\ ~membersRing.isNil
    /\ Len(drawLog) > Len(Pool)
    /\ Len(drawLog) < MaxDraws
    /\ \E d, e \in 1..Len(drawLog) : drawLog[d].task # drawLog[e].task

\* C13: the error a goroutine tests is the one of its own last draw: after
\* a failed draw of its own it sends no assignment (which would name the
\* empty login of User{}), and it ends the run only for a failed draw of
\* its own.
C13_OwnError ==
    \A t \in Tasks :
      /\ ret[t].err # "nil" =>
           (assignWrites[t] = <<>> /\ taskPC[t] \notin {"assign", "comment"})
      /\ \A w \in 1..Len(assignWrites[t]) : assignWrites[t][w].user # ZeroUser
      /\ [kind |-> "cannot pick user", task |-> t] \in logs => ret[t].err # "nil"

\* Goroutine t sends a write in this step and the write fails.
C14_FailedWrite(t) ==
    \/ /\ Len(assignWrites'[t]) > Len(assignWrites[t])
       /\ assignWrites'[t][Len(assignWrites'[t])].outcome # "ok"
    \/ /\ Len(commentWrites'[t]) > Len(commentWrites[t])
       /\ commentWrites'[t][Len(commentWrites'[t])] # "ok"
    \/ /\ Len(reminders'[t]) > Len(reminders[t])
       /\ reminders'[t][Len(reminders'[t])] # "ok"

\* C14: main gets past wg.Wait() only with every goroutine done, and a
\* failed write of one goroutine leaves the run running and touches nothing
\* of the other goroutines or of what they share.
C14_JoinBarrier ==
    /\ [](mainPC = "done" => \A t \in Tasks : taskPC[t] = "done")
    /\ [][ \A t \in Tasks :
             C14_FailedWrite(t) =>
               /\ mainPC' = mainPC
               /\ taskPC'[t] = "done"
               /\ err' = err
               /\ memberVars' = memberVars
               /\ \A u \in Tasks \ {t} :
                    /\ taskPC'[u] = taskPC[u]
                    /\ user'[u] = user[u]
                    /\ ret'[u] = ret[u]
                    /\ assignWrites'[u] = assignWrites[u]
                    /\ commentWrites'[u] = commentWrites[u]
                    /\ reminders'[u] = reminders[u] ]_vars

\* C14 witness: the run ended with an assignment that failed in one
\* goroutine and another goroutine done after it.
C14_Witness ==
    /\ mainPC = "done"
    /\ \E t, u \in Tasks :
         /\ t # u
         /\ [kind |-> "cannot assign", task |-> t] \in logs
         /\ path[u] = "assign"

\* C15: a failed members request hands its error to the goroutine that made
\* the request and leaves the cache nil and the ring nil with both locks
\* free; a call of nextRandomMember that finds the cache nil sends the
\* request again and draws nothing, and no draw is ever served without a
\* cached pool.
C15_NothingMemoized ==
    /\ [](membersCache.isNil => (membersRing.isNil /\ drawLog = <<>>))
    /\ [][ /\ fetchFails' > fetchFails =>
                /\ membersCache' = NilCache
                /\ membersRing' = NilRing
                /\ membersMu' = 0
                /\ membersRMu' = 0
                /\ \E t \in Tasks :
                     /\ taskPC[t] = "fetch"
                     /\ ret'[t] = [user |-> ZeroUser, err |-> "cannot list memebers"]
                     /\ \A u \in Tasks \ {t} : ret'[u] = ret[u]
           /\ \A t \in Tasks :
                (taskPC[t] = "draw" /\ taskPC'[t] # "draw" /\ membersCache.isNil) =>
                  /\ taskPC'[t] = "fetch"
                  /\ fetchCalls' = fetchCalls + 1
                  /\ drawLog' = drawLog ]_vars

\* C15 witness: a members request failed, a later call sent the request
\* again, and that one filled the cache.
C15_Witness ==
    /\ fetchFails >= 1
    /\ fetchCalls >= 2
    /\ ~membersCache.isNil
    /\ drawLog # <<>>

\* C18: the ring is built once, with an offset s in 0..N-1 over the pool
\* p of N members, and the i-th draw of the run (counted from 0) returns
\* p[(s + i) mod N]: the draws are a rotation of the pool order.
C18_Rotation ==
    drawLog # <<>> =>
      /\ Len(ringSkips) = 1
      /\ ringSkips[1] \in 0..(Len(Pool) - 1)
      /\ \A i \in 0..(Len(drawLog) - 1) :
           drawLog[i + 1].member = Pool[((ringSkips[1] + i) % Len(Pool)) + 1]

\* C18 witness: a pool of three, the first draw returned the last member
\* and the draws went round the pool more than once.
C18_Witness ==
    /\ Len(Pool) = 3
    /\ Len(drawLog) > Len(Pool)
    /\ drawLog[1].member = Pool[3]
    /\ drawLog[2].member = Pool[1]

\* The pool holds a member that goroutine t may keep.
C16_HasAcceptable(t) ==
    /\ ~membersCache.isNil
    /\ \E k \in 1..Len(Pool) : Acceptable(Pool[k], stale[t])

\* C16: under fair scheduling, a goroutine that is in its selection loop
\* while the pool holds an acceptable member leaves the loop (or the
\* process ends).
C16_SelectionTerminates ==
    \A t \in TaskIds :
      []( (/\ t \in Tasks
           /\ taskPC[t] \in {"draw", "fetch", "store"}
           /\ C16_HasAcceptable(t))
          => <>(\/ mainPC \in {"panic", "fatal"}
                \/ t \in Tasks /\ taskPC[t] \notin {"draw", "fetch", "store"}) )

\* membersMu is taken only by the holder of membersRMu, and a lock is held
\* only while its holder's members request is in flight.
C17_LockDiscipline ==
    /\ membersMu # 0 => membersRMu = membersMu
    /\ membersRMu # 0 =>
         /\ membersRMu \in Tasks
         /\ membersMu = membersRMu
         /\ taskPC[membersRMu] = "fetch" \/ mainPC \in {"panic", "fatal"}

\* A goroutine waiting for membersRMu gets to see it free.
C17_NoBlocking ==
    \A t \in TaskIds :
      []( (t \in Tasks /\ taskPC[t] = "draw" /\ membersRMu # 0)
          => <>(membersRMu = 0 \/ mainPC \in {"panic", "fatal"}) )

\* C17: the locks are taken in the order membersRMu, membersMu and given
\* back on every return, no goroutine waits for a lock forever, and under
\* fair scheduling main gets past wg.Wait() (or the process ends).
C17_DeadlockFree ==
    /\ []C17_LockDiscipline
    /\ C17_NoBlocking
    /\ <>(mainPC \in {"done", "panic", "fatal"})

====
